---- MODULE Spec2Model ----
(***************************************************************************)
(* A model of packages/wrangler/src/dev/dev.tsx: the interactive dev       *)
(* session (useHotkeys, useDevRegistry, useTmpDir, useCustomBuild), the    *)
(* tunnel hook (useTunnel) and the tunnel hostname discovery               *)
(* (findTunnelHostname).                                                   *)
(*                                                                         *)
(* Every React effect is modelled by two operators, its setup and its      *)
(* cleanup; a re-render whose dependencies changed runs the cleanup of the *)
(* previous effect and then the setup of the new one in the same action,   *)
(* as React's commit does.  Promises and timers are separate actions: they *)
(* run whenever the event loop picks them.                                 *)
(***************************************************************************)
EXTENDS Integers, Sequences, FiniteSets, TLC

VARIABLES
    \* ---- the interactive session (InteractiveDevSession / DevSession)
    phase,          \* "starting" | "running" | "ended" | "failed"
    config,         \* the props that never change: forceLocal, initialMode, name, inspect
    toggles,        \* useHotkeys: useState(initial), {local, tunnel}
    services,       \* props.bindings.services, as passed to useDevRegistry
    workers,        \* useDevRegistry: useState<WorkerRegistry>({}), the object and its identity
    regEffect,      \* the closure of the live useDevRegistry effect: its interval
    timers,         \* the intervals setInterval created and clearInterval has not cleared
    inflight,       \* pending getRegisteredWorkers() promises, each with its closure
    tmpDirs,        \* the temporary directories that exist on disk
    directory,      \* useTmpDir: useState<DirectorySyncResult>()
    tmpEffect,      \* the closure of the useTmpDir effect: its cleanup and its `dir`
    lastEvent,      \* the handler the event loop ran last, with its input
    calls,          \* the external calls that handler made
    rg,             \* the registry service calls of useDevRegistry and their promises
    bw,             \* useCustomBuild: props.build, the watchers, the build invocations
    \* ---- useTunnel, driven by its `toggle` argument
    tun,
    \* ---- findTunnelHostname, one call
    hn

vars == <<phase, config, toggles, services, workers, regEffect, timers, inflight,
          tmpDirs, directory, tmpEffect, lastEvent, calls, rg, bw, tun, hn>>

sessionVars == <<phase, config, toggles, services, workers, regEffect, timers,
                 inflight, tmpDirs, directory, tmpEffect, lastEvent, calls, rg, bw>>

-----------------------------------------------------------------------------
(* Bounds *)

\* pending registry fetches the model keeps at once
MaxInflight == 1

\* interval handles the runtime can hand out
MaxTimers == 2

\* startTunnel() calls with the toggle on that the model follows
MaxStarts == 2

\* symbols in a body the metrics endpoint returns
MaxBodyLen == 4

\* metrics fetches one findTunnelHostname() call is followed for
MaxFetches == 4

\* filesystem events the watcher is followed for
MaxEvents == 2

-----------------------------------------------------------------------------
(* Values *)

\* the worker names the dev registry may hold
RegistryNames == {"svcA", "svcB"}

\* the definitions a worker may advertise (WorkerDefinition: port, protocol, ...)
Definitions == {[port |-> 8787, protocol |-> "http"], [port |-> 8788, protocol |-> "https"]}

\* WorkerRegistry: Record<string, WorkerDefinition>
WorkerRegistries == UNION {[D -> Definitions] : D \in SUBSET RegistryNames}

\* what getRegisteredWorkers() may resolve with: WorkerRegistry | undefined
RegistryResponses ==
    {[defined |-> FALSE, map |-> <<>>]} \cup {[defined |-> TRUE, map |-> m] : m \in WorkerRegistries}

BindingA == [binding |-> "A", service |-> "svcA"]
BindingB == [binding |-> "B", service |-> "svcB"]

\* Config["services"] | undefined
ServiceLists ==
    {[defined |-> FALSE, list |-> <<>>]}
    \cup {[defined |-> TRUE, list |-> l] : l \in {<<>>, <<BindingA>>, <<BindingB>>, <<BindingA, BindingB>>}}

\* the keys the terminal may deliver
Inputs == {"c", "b", "d", "l", "L", "q", "X", "z"}

\* input.toLowerCase()
ToLowerCase(input) ==
    CASE input = "L" -> "l"
      [] input = "X" -> "x"
      [] OTHER -> input

NoEvent == [kind |-> "none", key |-> "", defs |-> [defined |-> FALSE, map |-> <<>>], names |-> <<>>]

Event(kind) == [NoEvent EXCEPT !.kind = kind]

-----------------------------------------------------------------------------
(* useDevRegistry *)

\* (services || []).map((serviceBinding) => serviceBinding.service)
ServiceNamesOf(svc) ==
    LET list == IF svc.defined THEN svc.list ELSE <<>>
    IN [i \in DOMAIN list |-> list[i].service]

\* serviceNames.includes(key)
Includes(serviceNames, key) == \E i \in DOMAIN serviceNames : serviceNames[i] = key

\* Object.fromEntries(Object.entries(workerDefinitions || {}).filter(...))
FilterWorkers(workerDefinitions, serviceNames) ==
    LET all == IF workerDefinitions.defined THEN workerDefinitions.map ELSE <<>>
        kept == {key \in DOMAIN all : Includes(serviceNames, key)}
    IN [key \in kept |-> all[key]]

\* a plausible slip: the snapshot is replaced on every poll, equal or not
SetWorkersAlways(filteredWorkers, prevWorkers) ==
    [ref |-> 1 - prevWorkers.ref, val |-> filteredWorkers]

\* setWorkers((prevWorkers) => ...): the new object (a new identity) when it
\* differs deeply from the previous one, else the previous object itself
SetWorkersUpdater(filteredWorkers, prevWorkers) ==
    IF filteredWorkers # prevWorkers.val
    THEN [ref |-> 1 - prevWorkers.ref, val |-> filteredWorkers]
    ELSE prevWorkers

\* the smallest handle no live interval holds
FreshTimer(live) == CHOOSE id \in 1..MaxTimers :
    /\ id \notin {t.id : t \in live}
    /\ \A other \in 1..MaxTimers : other \notin {t.id : t \in live} => id <= other

\* a plausible slip: the interval is created in both modes
RegistrySetupBothModes(live, svc, mode) ==
    LET id == FreshTimer(live)
    IN [timers |-> live \cup {[id |-> id, serviceNames |-> ServiceNamesOf(svc)]},
        effect |-> [interval |-> id]]

\* the effect's body: the interval exists only in local mode
RegistrySetup(live, svc, mode) ==
    IF mode = "local"
    THEN LET id == FreshTimer(live)
         IN [timers |-> live \cup {[id |-> id, serviceNames |-> ServiceNamesOf(svc)]},
             effect |-> [interval |-> id]]
    ELSE [timers |-> live, effect |-> [interval |-> 0]]

\* the effect's cleanup: interval && clearInterval(interval)
RegistryCleanup(live, effect) ==
    IF effect.interval # 0
    THEN {t \in live : t.id # effect.interval}
    ELSE live

\* The calls a handler makes to the world outside the session.
NoCalls ==
    [start |-> 0, stop |-> 0, unregister |-> 0, runCustomBuild |-> 0,
     exit |-> FALSE, openInspector |-> FALSE, openInBrowser |-> FALSE, clear |-> FALSE]

\* The registry service as this session drives it: `open` is the starts it
\* issued less the stops; `start` is the promise of the latest
\* startWorkerRegistry(); `job` is the latest teardown's Promise.allSettled.
NoJob == [unregister |-> "none", stop |-> "none", logged |-> {}]

RegistryIdle == [open |-> 0, start |-> "none", startLogged |-> FALSE, job |-> NoJob]

\* the effect's body: startWorkerRegistry().catch(...)
RegistryStart(r) == [r EXCEPT !.open = @ + 1, !.start = "pending", !.startLogged = FALSE]

\* a plausible slip: the teardown unregisters but leaves the registry running
RegistryStopSkipped(r, name) ==
    [r EXCEPT !.job = [unregister |-> IF name # "" THEN "pending" ELSE "fulfilled",
                       stop |-> "fulfilled", logged |-> {}]]

\* the effect's cleanup: Promise.allSettled([name ? unregisterWorker(name)
\* : Promise.resolve(), stopWorkerRegistry()])
RegistryStop(r, name) ==
    [r EXCEPT !.open = @ - 1,
              !.job = [unregister |-> IF name # "" THEN "pending" ELSE "fulfilled",
                       stop |-> "pending", logged |-> {}]]

\* the calls of one teardown
StopCalls(c, name) ==
    [c EXCEPT !.stop = @ + 1, !.unregister = IF name # "" THEN @ + 1 ELSE @]

\* a plausible slip: Promise.all, whose first rejection is the only one logged
FirstRejection(job) ==
    IF job.unregister = "rejected" THEN [job EXCEPT !.logged = {"unregister"}]
    ELSE IF job.stop = "rejected" THEN [job EXCEPT !.logged = {"stop"}]
    ELSE job

\* the .then of Promise.allSettled, once both have settled: one
\* logger.error for each that rejected
AllSettled(job) ==
    IF job.unregister \in {"fulfilled", "rejected"} /\ job.stop \in {"fulfilled", "rejected"}
    THEN [job EXCEPT !.logged = {which \in {"unregister", "stop"} : job[which] = "rejected"}]
    ELSE job

ModeOf(local) == IF local THEN "local" ELSE "remote"

\* a re-render with changed dependencies [name, services, mode]
RegistryRerun(svc, local) ==
    LET cleared == RegistryCleanup(timers, regEffect)
        next == RegistrySetup(cleared, svc, ModeOf(local))
    IN /\ Cardinality(cleared) < MaxTimers
       /\ timers' = next.timers
       /\ regEffect' = next.effect
       /\ rg' = RegistryStart(RegistryStop(rg, config.name))
       /\ calls' = [StopCalls(NoCalls, config.name) EXCEPT !.start = 1]

-----------------------------------------------------------------------------
(* useCustomBuild *)

\* Config["build"]: command and watch_dir, each set or not
Builds == [command : BOOLEAN, watch_dir : BOOLEAN]

NoBuild == [command |-> FALSE, watch_dir |-> FALSE]

BuildIdle(build) ==
    [build |-> build, watchers |-> {}, watcher |-> 0,
     events |-> 0, invocations |-> 0, running |-> 0, errors |-> 0]

\* a plausible slip: the previous watcher is left open
BuildCleanupLeavesOpen(b) == [b EXCEPT !.watcher = 0]

\* the effect's cleanup, where the effect returned one: watcher?.close()
BuildCleanup(b) == [b EXCEPT !.watchers = @ \ {b.watcher}, !.watcher = 0]

\* the effect's body: no command, nothing; a watch_dir, a watcher
BuildSetup(b, build) ==
    IF build.command /\ build.watch_dir
    THEN LET id == CHOOSE w \in 1..(Cardinality(b.watchers) + 1) : w \notin b.watchers
         IN [b EXCEPT !.build = build, !.watchers = @ \cup {id}, !.watcher = id]
    ELSE [b EXCEPT !.build = build, !.watcher = 0]

-----------------------------------------------------------------------------
(* useTmpDir *)

\* a plausible slip: the error of tmp.dirSync() is logged and not handed on
TmpDirSetupSwallows(dirSyncOk) ==
    IF dirSyncOk
    THEN [dirs |-> {"tmp-1"}, directory |-> "tmp-1",
          effect |-> [cleanup |-> FALSE, dir |-> "tmp-1"], failed |-> FALSE]
    ELSE [dirs |-> {}, directory |-> "",
          effect |-> [cleanup |-> TRUE, dir |-> ""], failed |-> FALSE]

\* the effect's body; dirSyncOk is whether tmp.dirSync() returned
TmpDirSetup(dirSyncOk) ==
    IF dirSyncOk
    THEN \* setDirectory(dir); return;  -- no cleanup is returned
         [dirs |-> {"tmp-1"}, directory |-> "tmp-1",
          effect |-> [cleanup |-> FALSE, dir |-> "tmp-1"], failed |-> FALSE]
    ELSE \* logger.error(...); handleError(err); return () => dir?.removeCallback()
         [dirs |-> {}, directory |-> "",
          effect |-> [cleanup |-> TRUE, dir |-> ""], failed |-> TRUE]

\* the cleanup the effect returned, if it returned one: dir?.removeCallback()
TmpDirCleanup(dirs, effect) ==
    IF effect.cleanup /\ effect.dir # "" THEN dirs \ {effect.dir} ELSE dirs

-----------------------------------------------------------------------------
(* findTunnelHostname *)

SLEEP_DURATION == 2000

\* The text of a metrics response, symbol by symbol: "k" is the text
\* userHostname= , "q" a double quote, "n" a line terminator and "h" any
\* other character.
BodySymbols == {"k", "q", "h", "n"}

Bodies == UNION {[1..len -> BodySymbols] : len \in 0..MaxBodyLen}

\* what `await fetch(...)` and `await resp.text()` give: a throw, or a body
FetchOutcomes == {[ok |-> FALSE, data |-> <<>>]} \cup {[ok |-> TRUE, data |-> d] : d \in Bodies}

\* the ends j of a match of /userHostname="(.*)"/ that starts at i: the
\* closing quote, with no line terminator between the opening quote and it
MatchEnds(data, i) ==
    {j \in (i + 2)..Len(data) :
        /\ data[j] = "q"
        /\ \A m \in (i + 2)..(j - 1) : data[m] # "n"}

MatchStarts(data) ==
    {i \in 1..(Len(data) - 1) :
        /\ data[i] = "k"
        /\ data[i + 1] = "q"
        /\ MatchEnds(data, i) # {}}

Min(S) == CHOOSE x \in S : \A y \in S : x <= y
Max(S) == CHOOSE x \in S : \A y \in S : y <= x

\* Array.from(data.matchAll(hostNameRegex))[0][1]: the first match is the
\* leftmost one, and (.*) is greedy.  No match: matches[0] is undefined and
\* reading [1] of it throws.
FirstHostName(data) ==
    IF MatchStarts(data) = {}
    THEN [threw |-> TRUE, hostName |-> <<>>]
    ELSE LET i == Min(MatchStarts(data))
             j == Max(MatchEnds(data, i))
         IN [threw |-> FALSE, hostName |-> SubSeq(data, i + 2, j - 1)]

\* a plausible slip: an empty hostname is taken as a result too
AttemptAcceptingEmpty(outcome) ==
    IF ~outcome.ok
    THEN [next |-> "sleep", hostName |-> <<>>]
    ELSE LET found == FirstHostName(outcome.data)
         IN IF found.threw
            THEN [next |-> "sleep", hostName |-> <<>>]
            ELSE [next |-> "return", hostName |-> found.hostName]

\* one turn of `while (!hostName) { try {...} catch (err) { await sleep(...) } }`:
\* a throw goes to the sleep, a non-empty hostname ends the loop, and an
\* empty one goes straight to the next fetch
Attempt(outcome) ==
    IF ~outcome.ok
    THEN [next |-> "sleep", hostName |-> <<>>]
    ELSE LET found == FirstHostName(outcome.data)
         IN IF found.threw
            THEN [next |-> "sleep", hostName |-> <<>>]
            ELSE IF found.hostName # <<>>
                 THEN [next |-> "return", hostName |-> found.hostName]
                 ELSE [next |-> "fetch", hostName |-> found.hostName]

\* where the loop can go after an attempt, by whether the endpoint answered
AnsweredNext == {Attempt(o).next : o \in {x \in FetchOutcomes : x.ok}}

UnansweredNext == {Attempt(o).next : o \in {x \in FetchOutcomes : ~x.ok}}

AttemptsNext(answered) == IF answered THEN AnsweredNext ELSE UnansweredNext

HostnameInit ==
    [pc |-> "fetch", data |-> <<>>, hostName |-> <<>>, last |-> "none",
     fetches |-> 0, sleeps |-> 0, elapsed |-> 0]

\* the outcome of an attempt, as the taxonomy of failures names it
OutcomeKind(outcome) ==
    IF ~outcome.ok THEN "network failure"
    ELSE IF FirstHostName(outcome.data).threw THEN "no token"
    ELSE IF FirstHostName(outcome.data).hostName = <<>> THEN "empty value"
    ELSE "hostname"

\* the fetch of the metrics endpoint and the parse of its body
HostnameFetch(outcome) ==
    /\ hn.pc = "fetch"
    /\ hn.fetches < MaxFetches
    /\ LET a == Attempt(outcome)
       IN hn' = [hn EXCEPT !.pc = a.next, !.data = outcome.data, !.hostName = a.hostName,
                           !.last = OutcomeKind(outcome), !.fetches = @ + 1]
    /\ UNCHANGED <<sessionVars, tun>>

\* sleep(SLEEP_DURATION) resolves
HostnameSleepEnds ==
    /\ hn.pc = "sleep"
    /\ hn' = [hn EXCEPT !.pc = "fetch", !.sleeps = @ + 1, !.elapsed = @ + SLEEP_DURATION]
    /\ UNCHANGED <<sessionVars, tun>>

NextHostname ==
    \/ \E outcome \in FetchOutcomes : HostnameFetch(outcome)
    \/ HostnameSleepEnds

-----------------------------------------------------------------------------
(* useTunnel *)

\* The hook is mounted with toggle = false (InteractiveDevSession's initial
\* toggles), so its first effect starts nothing.  A subprocess, and the exit
\* listener registered with it, carry the number of the startTunnel() call
\* that made them; 0 is undefined.
TunnelInit ==
    [toggle |-> FALSE, mounted |-> TRUE, exited |-> FALSE,
     tunnel |-> 0, removeSignalExitListener |-> 0,
     procs |-> {}, listeners |-> {}, tasks |-> <<>>,
     kills |-> 0, removals |-> 0, killed |-> {}, warnings |-> 0]

\* a plausible slip: the handle is not cleared after the kill
TunnelCleanupKeepsHandle(t) ==
    IF t.tunnel # 0
    THEN [t EXCEPT !.procs = @ \ {t.tunnel},
                   !.kills = @ + 1,
                   !.killed = @ \cup {t.tunnel},
                   !.listeners = @ \ {t.removeSignalExitListener},
                   !.removals = IF t.removeSignalExitListener # 0 THEN @ + 1 ELSE @,
                   !.removeSignalExitListener = 0]
    ELSE t

\* the effect's cleanup
TunnelCleanup(t) ==
    IF t.tunnel # 0
    THEN [t EXCEPT !.procs = @ \ {t.tunnel},
                   !.kills = @ + 1,
                   !.killed = @ \cup {t.tunnel},
                   !.tunnel = 0,
                   !.listeners = @ \ {t.removeSignalExitListener},
                   !.removals = IF t.removeSignalExitListener # 0 THEN @ + 1 ELSE @,
                   !.removeSignalExitListener = 0]
    ELSE t

\* startTunnel() up to its first await
StartTunnel(t, toggle) ==
    IF toggle
    THEN [t EXCEPT !.tasks = Append(@, "commandExists")]
    ELSE t

\* the toggle changes: the previous effect's cleanup, then the new effect
SetTunnel(toggle) ==
    /\ tun.mounted /\ ~tun.exited
    /\ toggle # tun.toggle
    /\ toggle => Len(tun.tasks) < MaxStarts
    /\ tun' = StartTunnel([TunnelCleanup(tun) EXCEPT !.toggle = toggle], toggle)
    /\ UNCHANGED <<sessionVars, hn>>

\* the session ends: the last effect's cleanup
TunnelUnmount ==
    /\ tun.mounted
    /\ tun' = [TunnelCleanup(tun) EXCEPT !.mounted = FALSE]
    /\ UNCHANGED <<sessionVars, hn>>

\* `await commandExists("cloudflared")` settles for call i
CommandExistsSettles(i, found) ==
    /\ ~tun.exited
    /\ i \in DOMAIN tun.tasks
    /\ tun.tasks[i] = "commandExists"
    /\ IF found
       THEN \* spawn(...); tunnel.current.on("close", ...); onExit(...)
            tun' = [tun EXCEPT !.tasks[i] = "fetch",
                               !.tunnel = i,
                               !.procs = @ \cup {i},
                               !.listeners = @ \cup {i},
                               !.removeSignalExitListener = i]
       ELSE \* logger.warn(...); return
            tun' = [tun EXCEPT !.tasks[i] = "warned", !.warnings = @ + 1]
    /\ UNCHANGED <<sessionVars, hn>>

\* one fetch of call i's findTunnelHostname(); the metrics port answers only
\* while a tunnel subprocess is alive
TunnelFetch(i, answered, next) ==
    /\ ~tun.exited
    /\ i \in DOMAIN tun.tasks
    /\ tun.tasks[i] = "fetch"
    /\ answered => tun.procs # {}
    /\ next \in AttemptsNext(answered)
    /\ tun' = [tun EXCEPT !.tasks[i] =
                  CASE next = "sleep" -> "sleep"
                    [] next = "return" -> "clipboard"
                    [] OTHER -> "fetch"]
    /\ UNCHANGED <<sessionVars, hn>>

TunnelSleepEnds(i) ==
    /\ ~tun.exited
    /\ i \in DOMAIN tun.tasks
    /\ tun.tasks[i] = "sleep"
    /\ tun' = [tun EXCEPT !.tasks[i] = "fetch"]
    /\ UNCHANGED <<sessionVars, hn>>

\* `await clipboardy.write(hostName)` settles: the log line, or the catch
\* of startTunnel()
ClipboardSettles(i, written) ==
    /\ ~tun.exited
    /\ i \in DOMAIN tun.tasks
    /\ tun.tasks[i] = "clipboard"
    /\ tun' = [tun EXCEPT !.tasks[i] = IF written THEN "shared" ELSE "failed"]
    /\ UNCHANGED <<sessionVars, hn>>

\* the subprocess ends on its own: the "close" listener logs its code
TunnelCloses(p) ==
    /\ ~tun.exited
    /\ p \in tun.procs
    /\ tun' = [tun EXCEPT !.procs = @ \ {p}]
    /\ UNCHANGED <<sessionVars, hn>>

\* the body of one onExit listener
OnExitListener(t) ==
    IF t.tunnel # 0
    THEN [t EXCEPT !.procs = @ \ {t.tunnel}, !.kills = @ + 1,
                   !.killed = @ \cup {t.tunnel}, !.tunnel = 0]
    ELSE t

RECURSIVE RunListeners(_, _)
RunListeners(t, n) == IF n = 0 THEN t ELSE RunListeners(OnExitListener(t), n - 1)

\* the process is exiting: signal-exit runs every listener still registered
SignalExit ==
    /\ ~tun.exited
    /\ tun' = [RunListeners(tun, Cardinality(tun.listeners)) EXCEPT !.exited = TRUE]
    /\ UNCHANGED <<sessionVars, hn>>

NextTunnel ==
    \/ \E toggle \in BOOLEAN : SetTunnel(toggle)
    \/ TunnelUnmount
    \/ \E i \in 1..MaxStarts, found \in BOOLEAN : CommandExistsSettles(i, found)
    \/ \E i \in 1..MaxStarts, answered \in BOOLEAN, next \in {"sleep", "return", "fetch"} :
            TunnelFetch(i, answered, next)
    \/ \E i \in 1..MaxStarts : TunnelSleepEnds(i)
    \/ \E i \in 1..MaxStarts, written \in BOOLEAN : ClipboardSettles(i, written)
    \/ \E p \in 1..MaxStarts : TunnelCloses(p)
    \/ SignalExit

-----------------------------------------------------------------------------
(* The session *)

\* the props of a session that is not under study: a fixed configuration
SessionConfigured(cfg, svc) ==
    /\ phase = "starting"
    /\ config = cfg
    /\ toggles = [local |-> cfg.initialMode = "local", tunnel |-> FALSE]
    /\ services = svc
    /\ workers = [ref |-> 0, val |-> <<>>]
    /\ regEffect = [interval |-> 0]
    /\ timers = {}
    /\ inflight = <<>>
    /\ tmpDirs = {}
    /\ directory = ""
    /\ tmpEffect = [cleanup |-> FALSE, dir |-> ""]
    /\ lastEvent = NoEvent
    /\ calls = NoCalls
    /\ rg = RegistryIdle

Configs ==
    [forceLocal : BOOLEAN, initialMode : {"local", "remote"}, name : {"", "my-worker"},
     inspect : {FALSE}]

\* the session before its first commit, for every configuration
Init ==
    /\ \E cfg \in Configs, svc \in ServiceLists : SessionConfigured(cfg, svc)
    /\ bw = BuildIdle(NoBuild)
    /\ tun = TunnelInit
    /\ hn = HostnameInit

DefaultConfig ==
    [forceLocal |-> FALSE, initialMode |-> "local", name |-> "my-worker", inspect |-> FALSE]

InitTunnel ==
    /\ SessionConfigured(DefaultConfig, [defined |-> FALSE, list |-> <<>>])
    /\ bw = BuildIdle(NoBuild)
    /\ tun = TunnelInit
    /\ hn = HostnameInit

InitHostname == InitTunnel

\* the first commit: the effects of DevSession run; a failed tmp.dirSync() is
\* handed to the error boundary, which unmounts the session (ErrorFallback)
Mount(dirSyncOk) ==
    /\ phase = "starting"
    /\ LET tmp == TmpDirSetup(dirSyncOk)
           reg == RegistrySetup(timers, services, ModeOf(toggles.local))
       IN /\ directory' = tmp.directory
          /\ tmpEffect' = tmp.effect
          /\ IF tmp.failed
             THEN /\ phase' = "failed"
                  /\ tmpDirs' = TmpDirCleanup(tmp.dirs, tmp.effect)
                  /\ timers' = RegistryCleanup(reg.timers, reg.effect)
                  /\ regEffect' = reg.effect
                  /\ bw' = BuildCleanup(BuildSetup(bw, bw.build))
                  /\ rg' = RegistryStop(RegistryStart(rg), config.name)
                  /\ calls' = [StopCalls(NoCalls, config.name) EXCEPT !.start = 1, !.exit = TRUE]
             ELSE /\ phase' = "running"
                  /\ tmpDirs' = tmp.dirs
                  /\ timers' = reg.timers
                  /\ regEffect' = reg.effect
                  /\ bw' = BuildSetup(bw, bw.build)
                  /\ rg' = RegistryStart(rg)
                  /\ calls' = [NoCalls EXCEPT !.start = 1]
    /\ lastEvent' = Event("mount")
    /\ UNCHANGED <<config, toggles, services, workers, inflight, tun, hn>>

\* exit(): the tree unmounts and every effect's cleanup runs
Unmount ==
    /\ phase' = "ended"
    /\ timers' = RegistryCleanup(timers, regEffect)
    /\ tmpDirs' = TmpDirCleanup(tmpDirs, tmpEffect)
    /\ bw' = BuildCleanup(bw)
    /\ rg' = RegistryStop(rg, config.name)
    /\ calls' = [StopCalls(NoCalls, config.name) EXCEPT !.exit = TRUE]
    /\ UNCHANGED <<config, toggles, services, workers, regEffect, inflight,
                   directory, tmpEffect, tun, hn>>

\* a plausible slip: the "l" key toggles even when forceLocal is set
ToggleLocalUnforced(forceLocal, previousToggles) ==
    [previousToggles EXCEPT !.local = ~previousToggles.local]

\* case "l": if (forceLocal) return; setToggles((previousToggles) => ...)
ToggleLocal(forceLocal, previousToggles) ==
    IF forceLocal
    THEN previousToggles
    ELSE [previousToggles EXCEPT !.local = ~previousToggles.local]

\* a plausible slip: "d" opens the inspector whether or not inspect is set
KeyCallsInspectAlways(key, inspect) ==
    CASE key = "c" -> [NoCalls EXCEPT !.clear = TRUE]
      [] key = "b" -> [NoCalls EXCEPT !.openInBrowser = TRUE]
      [] key = "d" -> [NoCalls EXCEPT !.openInspector = TRUE]
      [] OTHER -> NoCalls

\* the calls of the keys that set no state
KeyCalls(key, inspect) ==
    CASE key = "c" -> [NoCalls EXCEPT !.clear = TRUE]
      [] key = "b" -> [NoCalls EXCEPT !.openInBrowser = TRUE]
      [] key = "d" -> [NoCalls EXCEPT !.openInspector = inspect]
      [] OTHER -> NoCalls

\* useInput's callback
UseInput(input) ==
    /\ phase = "running"
    /\ lastEvent' = [Event("input") EXCEPT !.key = input]
    /\ CASE ToLowerCase(input) = "l" ->
              LET next == ToggleLocal(config.forceLocal, toggles)
              IN IF next = toggles
                 THEN \* no state was set: nothing re-renders
                      /\ calls' = NoCalls
                      /\ UNCHANGED <<phase, config, toggles, services, workers, regEffect,
                                     timers, inflight, tmpDirs, directory, tmpEffect,
                                     rg, bw, tun, hn>>
                 ELSE \* DevSession re-renders with the other mode
                      /\ toggles' = next
                      /\ RegistryRerun(services, next.local)
                      /\ UNCHANGED <<phase, config, services, workers, inflight,
                                     tmpDirs, directory, tmpEffect, bw, tun, hn>>
         [] ToLowerCase(input) \in {"q", "x"} -> Unmount
         [] OTHER ->
              /\ calls' = KeyCalls(ToLowerCase(input), config.inspect)
              /\ UNCHANGED <<phase, config, toggles, services, workers, regEffect,
                             timers, inflight, tmpDirs, directory, tmpEffect,
                             rg, bw, tun, hn>>

\* the parent renders the session with another props.bindings.services
ChangeServices(svc) ==
    /\ phase = "running"
    /\ services' = svc
    /\ RegistryRerun(svc, toggles.local)
    /\ lastEvent' = Event("services")
    /\ UNCHANGED <<phase, config, toggles, workers, inflight, tmpDirs, directory,
                   tmpEffect, bw, tun, hn>>

\* the interval's callback: getRegisteredWorkers() is called
IntervalFires(t) ==
    /\ t \in timers
    /\ Len(inflight) < MaxInflight
    /\ inflight' = Append(inflight, t.serviceNames)
    /\ lastEvent' = Event("interval")
    /\ calls' = NoCalls
    /\ UNCHANGED <<phase, config, toggles, services, workers, regEffect, timers,
                   tmpDirs, directory, tmpEffect, rg, bw, tun, hn>>

Remove(seq, i) == [j \in 1..(Len(seq) - 1) |-> IF j < i THEN seq[j] ELSE seq[j + 1]]

\* a plausible slip (or a fix): the callback of a cleared interval is dropped
PollResolvesWhileLive(i, workerDefinitions) ==
    /\ i \in DOMAIN inflight
    /\ workers' = IF timers = {}
                  THEN workers
                  ELSE SetWorkersUpdater(FilterWorkers(workerDefinitions, inflight[i]), workers)
    /\ inflight' = Remove(inflight, i)
    /\ lastEvent' = [Event("poll") EXCEPT !.defs = workerDefinitions, !.names = inflight[i]]
    /\ calls' = NoCalls
    /\ UNCHANGED <<phase, config, toggles, services, regEffect, timers, tmpDirs,
                   directory, tmpEffect, rg, bw, tun, hn>>

\* getRegisteredWorkers() resolves: the .then callback of the poll
PollResolves(i, workerDefinitions) ==
    /\ i \in DOMAIN inflight
    /\ workers' = SetWorkersUpdater(FilterWorkers(workerDefinitions, inflight[i]), workers)
    /\ inflight' = Remove(inflight, i)
    /\ lastEvent' = [Event("poll") EXCEPT !.defs = workerDefinitions, !.names = inflight[i]]
    /\ calls' = NoCalls
    /\ UNCHANGED <<phase, config, toggles, services, regEffect, timers, tmpDirs,
                   directory, tmpEffect, rg, bw, tun, hn>>

\* a plausible slip: a failed poll stops the polling
PollRejectsAndStops(i) ==
    /\ i \in DOMAIN inflight
    /\ inflight' = Remove(inflight, i)
    /\ timers' = RegistryCleanup(timers, regEffect)
    /\ lastEvent' = Event("pollFailed")
    /\ calls' = NoCalls
    /\ UNCHANGED <<phase, config, toggles, services, workers, regEffect,
                   tmpDirs, directory, tmpEffect, rg, bw, tun, hn>>

\* getRegisteredWorkers() rejects: logger.warn
PollRejects(i) ==
    /\ i \in DOMAIN inflight
    /\ inflight' = Remove(inflight, i)
    /\ lastEvent' = Event("pollFailed")
    /\ calls' = NoCalls
    /\ UNCHANGED <<phase, config, toggles, services, workers, regEffect, timers,
                   tmpDirs, directory, tmpEffect, rg, bw, tun, hn>>

\* startWorkerRegistry() settles; a rejection goes to logger.error
StartSettles(ok) ==
    /\ rg.start = "pending"
    /\ rg' = [rg EXCEPT !.start = IF ok THEN "fulfilled" ELSE "rejected",
                        !.startLogged = ~ok]
    /\ lastEvent' = Event("startSettled")
    /\ calls' = NoCalls
    /\ UNCHANGED <<phase, config, toggles, services, workers, regEffect, timers,
                   inflight, tmpDirs, directory, tmpEffect, bw, tun, hn>>

\* unregisterWorker(name) or stopWorkerRegistry() of the latest teardown
\* settles; the second to settle runs the .then of Promise.allSettled
TeardownSettles(which, ok) ==
    /\ rg.job[which] = "pending"
    /\ rg' = [rg EXCEPT !.job = AllSettled([@ EXCEPT ![which] = IF ok THEN "fulfilled"
                                                                 ELSE "rejected"])]
    /\ lastEvent' = Event("teardownSettled")
    /\ calls' = NoCalls
    /\ UNCHANGED <<phase, config, toggles, services, workers, regEffect, timers,
                   inflight, tmpDirs, directory, tmpEffect, bw, tun, hn>>

\* the parent renders the session with another props.build
ChangeBuild(build) ==
    /\ phase = "running"
    /\ bw' = BuildSetup(BuildCleanup(bw), build)
    /\ lastEvent' = Event("build")
    /\ calls' = NoCalls
    /\ UNCHANGED <<phase, config, toggles, services, workers, regEffect, timers,
                   inflight, tmpDirs, directory, tmpEffect, rg, tun, hn>>

\* a plausible slip: no second build while one is running
WatcherEventDebounced(w) ==
    /\ w \in bw.watchers
    /\ bw.events < MaxEvents
    /\ bw' = IF bw.running > 0
             THEN [bw EXCEPT !.events = @ + 1]
             ELSE [bw EXCEPT !.events = @ + 1, !.invocations = @ + 1, !.running = @ + 1]
    /\ lastEvent' = Event("watcher")
    /\ calls' = [NoCalls EXCEPT !.runCustomBuild = IF bw.running > 0 THEN 0 ELSE 1]
    /\ UNCHANGED <<phase, config, toggles, services, workers, regEffect, timers,
                   inflight, tmpDirs, directory, tmpEffect, rg, tun, hn>>

\* the watcher's "all" listener: one runCustomBuild() for the event
WatcherEvent(w) ==
    /\ w \in bw.watchers
    /\ bw.events < MaxEvents
    /\ bw' = [bw EXCEPT !.events = @ + 1, !.invocations = @ + 1, !.running = @ + 1]
    /\ lastEvent' = Event("watcher")
    /\ calls' = [NoCalls EXCEPT !.runCustomBuild = 1]
    /\ UNCHANGED <<phase, config, toggles, services, workers, regEffect, timers,
                   inflight, tmpDirs, directory, tmpEffect, rg, tun, hn>>

\* one runCustomBuild() settles; a rejection goes to logger.error
BuildSettles(ok) ==
    /\ bw.running > 0
    /\ bw' = [bw EXCEPT !.running = @ - 1, !.errors = IF ok THEN @ ELSE @ + 1]
    /\ lastEvent' = Event("buildSettled")
    /\ calls' = NoCalls
    /\ UNCHANGED <<phase, config, toggles, services, workers, regEffect, timers,
                   inflight, tmpDirs, directory, tmpEffect, rg, tun, hn>>

\* The session with a custom build and with the registry's promises settling.
LifecycleConfigs ==
    [forceLocal : {FALSE}, initialMode : {"local", "remote"}, name : {"", "my-worker"},
     inspect : {FALSE}]

LifecycleServices == {[defined |-> FALSE, list |-> <<>>], [defined |-> TRUE, list |-> <<BindingA>>]}

LifecycleResponses ==
    {[defined |-> FALSE, map |-> <<>>],
     [defined |-> TRUE, map |-> [n \in {"svcA"} |-> [port |-> 8787, protocol |-> "http"]]]}

InitLifecycle ==
    /\ \E cfg \in LifecycleConfigs, svc \in LifecycleServices : SessionConfigured(cfg, svc)
    /\ \E build \in Builds : bw = BuildIdle(build)
    /\ tun = TunnelInit
    /\ hn = HostnameInit

NextLifecycle ==
    \/ \E ok \in BOOLEAN : Mount(ok)
    \/ \E input \in {"l", "q"} : UseInput(input)
    \/ \E svc \in LifecycleServices : ChangeServices(svc)
    \/ \E build \in Builds : ChangeBuild(build)
    \/ \E t \in timers : IntervalFires(t)
    \/ \E i \in 1..MaxInflight, r \in LifecycleResponses : PollResolves(i, r)
    \/ \E i \in 1..MaxInflight : PollRejects(i)
    \/ \E ok \in BOOLEAN : StartSettles(ok)
    \/ \E which \in {"unregister", "stop"}, ok \in BOOLEAN : TeardownSettles(which, ok)

\* The session under every key, with and without forceLocal and inspect,
\* and a registry that never answers a fetch.
HotkeyConfigs ==
    [forceLocal : BOOLEAN, initialMode : {"local", "remote"}, name : {"my-worker"},
     inspect : BOOLEAN]

InitHotkeys ==
    /\ \E cfg \in HotkeyConfigs :
           SessionConfigured(cfg, [defined |-> TRUE, list |-> <<BindingA>>])
    /\ bw = BuildIdle(NoBuild)
    /\ tun = TunnelInit
    /\ hn = HostnameInit

NextHotkeys ==
    \/ \E ok \in BOOLEAN : Mount(ok)
    \/ \E input \in Inputs : UseInput(input)
    \/ \E t \in timers : IntervalFires(t)
    \/ \E i \in 1..MaxInflight : PollRejects(i)

\* The session with a registry that never answers a fetch and a watch
\* directory whose files change: everything that can fail does.
InitBuild ==
    /\ \E mode \in {"local", "remote"} :
           SessionConfigured([DefaultConfig EXCEPT !.initialMode = mode],
                             [defined |-> TRUE, list |-> <<BindingA>>])
    /\ \E build \in Builds : bw = BuildIdle(build)
    /\ tun = TunnelInit
    /\ hn = HostnameInit

NextBuild ==
    \/ \E ok \in BOOLEAN : Mount(ok)
    \/ \E input \in {"l", "q"} : UseInput(input)
    \/ \E build \in Builds : ChangeBuild(build)
    \/ \E w \in bw.watchers : WatcherEvent(w)
    \/ \E ok \in BOOLEAN : BuildSettles(ok)
    \/ \E t \in timers : IntervalFires(t)
    \/ \E i \in 1..MaxInflight : PollRejects(i)
    \/ \E ok \in BOOLEAN : StartSettles(ok)
    \/ \E which \in {"unregister", "stop"}, ok \in BOOLEAN : TeardownSettles(which, ok)

\* The session without a custom build, under every key, service list and
\* registry answer; the promises of the registry's start and teardown are
\* left unsettled here and settle under SpecLifecycle and SpecBuild.
Next ==
    \/ \E ok \in BOOLEAN : Mount(ok)
    \/ \E input \in Inputs : UseInput(input)
    \/ \E svc \in ServiceLists : ChangeServices(svc)
    \/ \E t \in timers : IntervalFires(t)
    \/ \E i \in 1..MaxInflight, r \in RegistryResponses : PollResolves(i, r)
    \/ \E i \in 1..MaxInflight : PollRejects(i)

Spec == Init /\ [][Next]_vars

\* useTunnel under every sequence of values of its toggle
SpecTunnel == InitTunnel /\ [][NextTunnel]_vars

\* one call of findTunnelHostname() under every sequence of responses
SpecHostname == InitHostname /\ [][NextHostname]_vars

\* the session with props.build, the watcher and the registry's promises
SpecLifecycle == InitLifecycle /\ [][NextLifecycle]_vars

\* the session under its hotkeys
SpecHotkeys == InitHotkeys /\ [][NextHotkeys]_vars

\* the session with a watch directory and failing services
SpecBuild == InitBuild /\ [][NextBuild]_vars

-----------------------------------------------------------------------------
(* Properties of the session, checked under Spec *)

Keys(snapshot) == DOMAIN snapshot

\* C1: in every state of a session every key of the published snapshot is a
\* member of the session's current service-binding names, and the snapshot
\* is empty before the first poll.
C1_SnapshotWithinBindings ==
    /\ phase = "starting" => workers.val = <<>>
    /\ phase \in {"starting", "running"} =>
          \A key \in Keys(workers.val) : Includes(ServiceNamesOf(services), key)

\* C2: a poll result whose filtered map deeply equals the published snapshot
\* leaves the snapshot, and its identity, as it was; one that differs
\* replaces the snapshot by the filtered map, as a new object.
C2_PublishOnlyOnChange ==
    [][lastEvent'.kind = "poll" =>
          LET filteredWorkers == FilterWorkers(lastEvent'.defs, lastEvent'.names)
          IN IF filteredWorkers = workers.val
             THEN workers' = workers
             ELSE workers'.val = filteredWorkers /\ workers'.ref # workers.ref]_vars

\* a poll was answered with more workers than the session is bound to, and
\* the bound ones were published
C2_Witness ==
    /\ lastEvent.kind = "poll"
    /\ workers.val # <<>>
    /\ workers.val = FilterWorkers(lastEvent.defs, lastEvent.names)
    /\ Keys(workers.val) # Keys(lastEvent.defs.map)

\* C3: an interval exists, and a poll is started by it, only while the
\* session is running in local mode.
C3_PollsOnlyInLocalMode ==
    /\ [](timers # {} => toggles.local /\ phase = "running")
    /\ [][lastEvent'.kind = "interval" => toggles.local /\ phase = "running"]_vars
    /\ [][Len(inflight') > Len(inflight) => toggles.local /\ phase = "running"]_vars

\* the session polled, published, and was then toggled to remote mode: no
\* interval is left
C3_Witness ==
    /\ phase = "running"
    /\ ~toggles.local
    /\ lastEvent.kind = "input"
    /\ workers.val # <<>>
    /\ timers = {}

\* C4: with forceLocal set, an "l" or "L" key changes neither the toggles
\* nor the registry effect and its interval, and the toggles stay the
\* initial ones.
C4_ForceLocalIgnoresL ==
    /\ [](config.forceLocal =>
            toggles = [local |-> config.initialMode = "local", tunnel |-> FALSE])
    /\ [][(config.forceLocal /\ lastEvent'.kind = "input" /\ ToLowerCase(lastEvent'.key) = "l") =>
            /\ toggles' = toggles
            /\ regEffect' = regEffect
            /\ timers' = timers
            /\ inflight' = inflight
            /\ workers' = workers
            /\ phase' = phase]_vars

\* "L" was pressed in a forced-local session that is polling
C4_Witness ==
    /\ config.forceLocal
    /\ lastEvent.kind = "input"
    /\ lastEvent.key = "L"
    /\ toggles.local
    /\ timers # {}

\* C5: once the session is over, no temporary directory it created exists.
C5_TmpDirRemovedAtTeardown ==
    phase \in {"ended", "failed"} => tmpDirs = {}

\* C18: a fetch that resolves when no interval is left, the effect that
\* started it having been torn down, still publishes: the snapshot becomes
\* the filtered map of its result; and while no interval is left no poll is
\* started.
C18_InflightFetchOutlivesInterval ==
    /\ [][(timers = {} /\ lastEvent'.kind = "poll") =>
            workers'.val = FilterWorkers(lastEvent'.defs, lastEvent'.names)]_vars
    /\ [][(timers = {} /\ timers' = {}) => Len(inflight') <= Len(inflight)]_vars

\* the session is in remote mode with no interval, and the last thing
\* that happened is that a fetch resolved and its workers were published,
\* as the first snapshot after the empty one; no fetch is in flight
C18_Witness ==
    /\ phase = "running"
    /\ ~toggles.local
    /\ timers = {}
    /\ inflight = <<>>
    /\ lastEvent.kind = "poll"
    /\ workers.val # <<>>
    /\ workers.ref = 1

-----------------------------------------------------------------------------
(* Properties of useTunnel, checked under SpecTunnel *)

\* C6: at most one tunnel subprocess is alive at any time.
C6_AtMostOneTunnel == Cardinality(tun.procs) <= 1

\* C7: while the toggle is false, or after the session ended, no tunnel
\* subprocess is alive, no handle is stored and no exit listener is left.
C7_NoTunnelWhileOff ==
    (~tun.toggle \/ ~tun.mounted) =>
        /\ tun.procs = {}
        /\ tun.tunnel = 0
        /\ tun.listeners = {}

\* the toggle is on and the subprocess of its start is the one alive
Running(t) == t.toggle /\ t.tunnel # 0 /\ t.procs = {t.tunnel}

\* C8: the step that ends the session while the tunnel is running, be it
\* the component's teardown or the exit listener, kills the subprocess once
\* and removes the exit listener once; the other one, coming after it,
\* kills and removes nothing.
C8_KilledAndRemovedOnce ==
    [][/\ (tun.mounted /\ ~tun.exited /\ Running(tun) /\ (~tun'.mounted \/ tun'.exited)) =>
            /\ tun'.kills = tun.kills + 1
            /\ tun'.removals = tun.removals + 1
       /\ ((~tun.mounted \/ tun.exited) /\ tun.tunnel = 0
              /\ (tun'.mounted # tun.mounted \/ tun'.exited # tun.exited)) =>
            /\ tun'.kills = tun.kills
            /\ tun'.removals = tun.removals]_vars

\* C9: the teardown of useTunnel is idempotent: a second teardown changes
\* nothing the first left, a teardown with no subprocess changes nothing at
\* all, and a toggle or session end that finds no subprocess kills nothing
\* and removes no listener.
C9_TeardownIdempotent ==
    /\ [](/\ TunnelCleanup(TunnelCleanup(tun)) = TunnelCleanup(tun)
          /\ tun.tunnel = 0 => TunnelCleanup(tun) = tun)
    /\ [][(tun.tunnel = 0 /\ (tun'.toggle # tun.toggle \/ tun'.mounted # tun.mounted)) =>
            /\ tun'.kills = tun.kills
            /\ tun'.removals = tun.removals
            /\ tun'.procs = tun.procs
            /\ tun'.listeners = tun.listeners]_vars

\* the tunnel was started, torn down by toggling off, and the toggle came
\* back on: the second teardown found nothing to kill
C9_Witness ==
    /\ tun.mounted /\ ~tun.exited
    /\ tun.toggle
    /\ Len(tun.tasks) = 2
    /\ tun.tasks[1] # "commandExists"
    /\ tun.tasks[2] = "commandExists"
    /\ tun.kills = 1
    /\ tun.removals = 1
    /\ tun.tunnel = 0

\* the startTunnel() calls that found no cloudflared
Warned == {i \in DOMAIN tun.tasks : tun.tasks[i] = "warned"}

C15_DiscoveryEndsWithTunnel ==
    [][\A i \in DOMAIN tun.tasks :
          i \in tun.killed =>
             /\ ~(tun.tasks[i] = "fetch" /\ tun'.tasks[i] # "fetch")
             /\ ~(tun.tasks[i] = "clipboard" /\ tun'.tasks[i] # "clipboard")]_vars

-----------------------------------------------------------------------------
(* Properties of findTunnelHostname, checked under SpecHostname *)

\* C10: every attempt after the first comes at least SLEEP_DURATION after
\* the one before it, whatever the outcome of that one was, and once a
\* hostname is returned no attempt follows.
C10_OneAttemptPerSleep ==
    /\ hn.fetches > 0 => (hn.fetches - 1) * SLEEP_DURATION <= hn.elapsed
    /\ hn.pc = "return" => hn.hostName # <<>>

-----------------------------------------------------------------------------
(* Properties of the build watcher and of failures, checked under SpecBuild *)

\* C12: every event of the watcher starts one runCustomBuild(), whether or
\* not an earlier one is still running: as many invocations as events, each
\* event adds one running build, a running build ends only by settling, and
\* a build that fails is logged and leaves the watcher open.
C12_OneBuildPerEvent ==
    /\ [](bw.invocations = bw.events)
    /\ [][bw'.events = bw.events + 1 =>
            /\ bw'.invocations = bw.invocations + 1
            /\ bw'.running = bw.running + 1
            /\ calls'.runCustomBuild = 1]_vars
    /\ [][bw'.running < bw.running =>
            /\ lastEvent'.kind = "buildSettled"
            /\ bw'.running = bw.running - 1]_vars
    /\ [][bw'.errors # bw.errors =>
            /\ bw'.errors = bw.errors + 1
            /\ bw'.watchers = bw.watchers
            /\ bw'.watcher = bw.watcher
            /\ phase' = phase]_vars

\* two files changed in quick succession: the second build was started
\* while the first was running
C12_Witness ==
    /\ bw.watchers # {}
    /\ bw.events = 2
    /\ bw.invocations = 2
    /\ bw.running = 2

-----------------------------------------------------------------------------
(* Properties of reconfiguration and of the registry calls, checked under    *)
(* SpecLifecycle                                                             *)

\* C14: in every state the live intervals are at most one, the one of the
\* current useDevRegistry effect, and the open watchers are at most one,
\* the one of the current useCustomBuild effect: a re-run of an effect has
\* cleared or closed the previous one before it makes the next.
C14_OneIntervalOneWatcher ==
    /\ Cardinality(timers) <= 1
    /\ \A t \in timers : t.id = regEffect.interval
    /\ Cardinality(bw.watchers) <= 1
    /\ \A w \in bw.watchers : w = bw.watcher

\* the registry effect was re-run and then props.build was replaced, in a
\* session that polls and watches
C14_Witness ==
    /\ phase = "running"
    /\ lastEvent.kind = "build"
    /\ rg.job.stop # "none"
    /\ toggles.local
    /\ timers # {}
    /\ bw.watchers # {}

\* the two promises of the latest teardown have both settled
JobSettled ==
    /\ rg.job.unregister \in {"fulfilled", "rejected"}
    /\ rg.job.stop \in {"fulfilled", "rejected"}

\* C16: a teardown calls stopWorkerRegistry() and, if the session has a
\* name, unregisterWorker(name), both at once; one of the two settling, as
\* fulfilled or rejected, leaves the other as it was; once both have
\* settled each rejection has been logged, the one apart from the other;
\* and no settling changes whether the session runs.
C16_TeardownCallsAreIndependent ==
    /\ [][calls'.stop = 1 =>
            /\ rg'.job.stop = "pending"
            /\ calls'.unregister = (IF config.name # "" THEN 1 ELSE 0)
            /\ rg'.job.unregister = (IF config.name # "" THEN "pending" ELSE "fulfilled")
            /\ rg'.job.logged = {}]_vars
    /\ [][(calls'.stop = 0 /\ rg'.job.unregister # rg.job.unregister) =>
            /\ rg.job.unregister = "pending"
            /\ rg'.job.stop = rg.job.stop
            /\ phase' = phase]_vars
    /\ [][(calls'.stop = 0 /\ rg'.job.stop # rg.job.stop) =>
            /\ rg.job.stop = "pending"
            /\ rg'.job.unregister = rg.job.unregister
            /\ phase' = phase]_vars
    /\ [](rg.job.logged =
            IF JobSettled
            THEN {which \in {"unregister", "stop"} : rg.job[which] = "rejected"}
            ELSE {})

\* a mode toggle tore the registry effect down: the unregister was rejected
\* and logged, the stop was fulfilled all the same, the session runs
C16_Witness ==
    /\ phase = "running"
    /\ rg.job.unregister = "rejected"
    /\ rg.job.stop = "fulfilled"
    /\ rg.job.logged = {"unregister"}

\* C17: a rejected getRegisteredWorkers() leaves the snapshot, the interval
\* and the session as they were, and a session running in local mode has
\* its interval whatever has failed before, a rejected
\* startWorkerRegistry() included.
C17_FailuresDoNotStopPolling ==
    /\ [][lastEvent'.kind = "pollFailed" =>
            /\ workers' = workers
            /\ timers' = timers
            /\ regEffect' = regEffect
            /\ phase' = phase]_vars
    /\ []((phase = "running" /\ toggles.local) =>
            \E t \in timers : t.id = regEffect.interval)
    /\ [][rg'.start # rg.start => timers' = timers \/ calls'.start = 1]_vars

\* the registry could not be started, and the interval fired after that
C17_Witness ==
    /\ phase = "running"
    /\ rg.start = "rejected"
    /\ lastEvent.kind = "interval"
    /\ Len(inflight) = 1

\* C20: the starts a session has issued less the stops are 0 or 1: 1 while
\* it runs, 0 before its first commit and once it has ended; a mount issues
\* one start, a mode toggle or a change of the service list one stop and
\* one start, the end of the session one stop, and nothing else any.
C20_StartsAndStopsBalanced ==
    /\ [](rg.open = (IF phase = "running" THEN 1 ELSE 0))
    /\ [][rg'.open = rg.open + calls'.start - calls'.stop]_vars
    /\ [][(lastEvent'.kind = "services" \/ toggles'.local # toggles.local) =>
            calls'.start = 1 /\ calls'.stop = 1]_vars
    /\ [][(phase = "starting" /\ phase' = "running") =>
            calls'.start = 1 /\ calls'.stop = 0]_vars
    /\ [][(phase = "starting" /\ phase' = "failed") =>
            calls'.start = 1 /\ calls'.stop = 1]_vars
    /\ [][(phase = "running" /\ phase' # "running") =>
            calls'.start = 0 /\ calls'.stop = 1]_vars
    /\ [][(phase' = phase /\ toggles' = toggles /\ lastEvent'.kind # "services") =>
            calls'.start = 0 /\ calls'.stop = 0]_vars

\* a session that has ended after its mode was toggled: as many stops as
\* starts
C20_Witness ==
    /\ phase = "ended"
    /\ toggles.local # (config.initialMode = "local")
    /\ rg.open = 0
    /\ calls.stop = 1

-----------------------------------------------------------------------------
(* Properties of the hotkeys, checked under SpecHotkeys *)

\* C19: a key acts by its lower case.  q and x end the session; l without
\* forceLocal negates toggles.local and leaves toggles.tunnel, and with
\* forceLocal sets nothing; d calls openInspector exactly when inspect is
\* set; b calls openInBrowser, c clears the console; every key but l
\* leaves the toggles, every key but q and x leaves the session running,
\* and no other key makes any of these calls.
C19_HotkeyTable ==
    [][lastEvent'.kind = "input" =>
          LET key == lastEvent'.key
          IN /\ key \in {"q", "Q", "x", "X"} => phase' = "ended" /\ calls'.exit
             /\ key \notin {"q", "Q", "x", "X"} => phase' = phase /\ ~calls'.exit
             /\ (key \in {"l", "L"} /\ ~config.forceLocal) =>
                    toggles' = [local |-> ~toggles.local, tunnel |-> toggles.tunnel]
             /\ (key \in {"l", "L"} /\ config.forceLocal) => toggles' = toggles
             /\ key \notin {"l", "L"} => toggles' = toggles
             /\ calls'.openInspector <=> (key \in {"d", "D"} /\ config.inspect)
             /\ calls'.openInBrowser <=> key \in {"b", "B"}
             /\ calls'.clear <=> key \in {"c", "C"}]_vars

\* "d" was pressed with inspect set, in a session whose mode "l" had
\* changed: the inspector was opened and the mode stayed
C19_Witness ==
    /\ phase = "running"
    /\ config.inspect
    /\ lastEvent.kind = "input"
    /\ lastEvent.key = "d"
    /\ calls.openInspector
    /\ toggles.local # (config.initialMode = "local")

====
